---- MODULE Spec2Model ----
(***************************************************************************)
(* A model of cytrans: the ffprobe output parser (src/src/ffprobe.rs) and  *)
(* the remux planner (src/src/transcode.rs).                               *)
(*                                                                         *)
(* Rust's Option<T> is modelled as a set with at most one element:         *)
(* None is {} and Some(x) is {x}.  Strings are TLA+ strings, format! is    *)
(* string concatenation and ToString.  An argument of the ffmpeg Command   *)
(* is a record [path, s]: path is TRUE for an argument built by            *)
(* outputdir.join(s), FALSE for a plain string argument.                   *)
(***************************************************************************)
EXTENDS Integers, Sequences, FiniteSets, TLC

VARIABLES
    \* ---- remux (transcode.rs) ----
    ffprobe,             \* the FFprobeResult handed to remux
    url_prefix,          \* remux's url_prefix argument
    preferred_language,  \* remux's preferred_language argument (Option<str4>)
    pc,                  \* "ready" | "returned" | "panicked"
    command,             \* the arguments of the returned Command
    manifest,            \* the returned CytubeVideo
    \* ---- ffprobe (ffprobe.rs) ----
    ppc,                 \* "idle" | "start" | "reading" | "ok" | "err" | a panic message
    nlines,              \* lines of the tool's output consumed so far
    line,                \* the line consumed last
    tracks,              \* ffprobe's local `tracks`
    ptitle,              \* ffprobe's local `title`
    pduration,           \* ffprobe's local `duration`
    pbitrate             \* ffprobe's local `bitrate`

remux_vars == <<ffprobe, url_prefix, preferred_language, pc, command, manifest>>
probe_vars == <<ppc, nlines, line, tracks, ptitle, pduration, pbitrate>>
vars == <<remux_vars, probe_vars>>

None == {}
Some(x) == {x}
unwrap(o) == CHOOSE x \in o : TRUE
unwrap_or(o, d) == IF o = None THEN d ELSE unwrap(o)

(***************************************************************************)
(* Compatibility tables (transcode.rs)                                     *)
(***************************************************************************)
BITMAP_SUBTITLE_CODECS == {"dvb_subtitle", "dvd_subtitle", "hdmv_pgs_subtitle", "xsub"}

find_video_container(video_codec) ==
    CASE video_codec \in {"av1", "vp8", "vp9"} -> Some("WEBM")
      [] video_codec \in {"h264", "hevc", "mpeg4", "mpeg2video"} -> Some("MP4")
      [] video_codec = "theora" -> Some("OGG")
      [] OTHER -> None

\* flac taken to be accepted by WEBM as it is by OGG
get_acceptable_audio_codecs_flac_in_webm(container) ==
    CASE container = "MP4"  -> {"aac", "alac", "flac", "opus", "mp3"}
      [] container = "WEBM" -> {"opus", "vorbis", "flac"}
      [] container = "OGG"  -> {"opus", "vorbis", "flac"}

get_acceptable_audio_codecs(container) ==
    CASE container = "MP4"  -> {"aac", "alac", "flac", "opus", "mp3"}
      [] container = "WEBM" -> {"opus", "vorbis"}
      [] container = "OGG"  -> {"opus", "vorbis", "flac"}

preferred_audio_encoder(container) ==
    CASE container = "MP4" -> "aac"
      [] container \in {"WEBM", "OGG"} -> "libopus"

video_extension(container) ==
    CASE container = "MP4"  -> "mp4"
      [] container = "WEBM" -> "webm"
      [] container = "OGG"  -> "ogv"

video_mimetype(container) ==
    CASE container = "MP4"  -> "video/mp4"
      [] container = "WEBM" -> "video/webm"
      [] container = "OGG"  -> "video/ogg"

find_audio_container(audio_codec) ==
    CASE audio_codec \in {"aac", "alac", "aac_latm"} -> Some("M4A")
      [] audio_codec \in {"opus", "vorbis", "flac"} -> Some("OGG")
      [] audio_codec = "mp3" -> Some("PseudoM4A")
      [] OTHER -> None

audio_extension(container) ==
    CASE container = "OGG" -> "ogg"
      [] container \in {"M4A", "PseudoM4A"} -> "m4a"

audio_mimetype(container) ==
    CASE container = "OGG" -> "audio/ogg"
      [] container \in {"M4A", "PseudoM4A"} -> "audio/mp4"

\* crate::ffmpeg_languages::LANGUAGES: language code -> English name.
LANGUAGES(code) ==
    CASE code = "eng" -> Some("English")
      [] code = "fre" -> Some("French")
      [] OTHER -> None

\* crate::ffmpeg_languages::FF2CT: ffmpeg language code -> the platform's code.
FF2CT(code) ==
    CASE code = "eng" -> Some("en")
      [] code = "fre" -> Some("fr")
      [] OTHER -> None

\* a path separator put between the pieces
RECURSIVE strcat_with_separator(_, _)
strcat_with_separator(first, rest) ==
    IF rest = <<>> THEN first
    ELSE strcat_with_separator(first \o "/" \o Head(rest), Tail(rest))

\* rest is a slice of strings, pushed onto first one by one.
RECURSIVE strcat(_, _)
strcat(first, rest) ==
    IF rest = <<>> THEN first ELSE strcat(first \o Head(rest), Tail(rest))

build_language_string(language, title) ==
    LET s == unwrap_or(LANGUAGES(language), language)
    IN  IF title # None THEN s \o " (" \o unwrap(title) \o ")" ELSE s

(***************************************************************************)
(* remux (transcode.rs)                                                    *)
(***************************************************************************)
media_file == "movie.mkv"
\* Path::file_stem of media_file
file_stem(path) == CASE path = "movie.mkv" -> "movie"

Arg(s) == [path |-> FALSE, s |-> s]
\* outputdir.join(filename)
PathArg(filename) == [path |-> TRUE, s |-> filename]
Args(strs) == [i \in 1..Len(strs) |-> Arg(strs[i])]

\* the classification loop: the tracks of one kind, in probe order
tracks_of_kind(probe, kind) == SelectSeq(probe.tracks, LAMBDA t : t.kind = kind)

\* the codec point given without looking at the codec
codec_point_unconditional(audio, video_container) == 1

codec_point(audio, video_container) ==
    IF video_container = None
       \/ audio.codec \in get_acceptable_audio_codecs(unwrap(video_container))
    THEN 1 ELSE 0

language_point(audio, preferred) ==
    IF preferred = None \/ audio.language = Some(unwrap(preferred)) THEN 1 ELSE 0

audio_score(audio, video_container, preferred) ==
    codec_point(audio, video_container) + language_point(audio, preferred)

\* a later track replacing the running best on an equal score
score_beats_or_ties(score, highest_score) == score >= highest_score

score_beats(score, highest_score) == score > highest_score

\* the selection loop from audio_tracks[i] on, with the running best
RECURSIVE choose_audio_from(_, _, _, _, _, _)
choose_audio_from(audio_tracks, i, chosen_audio, highest_score, video_container, preferred) ==
    IF i > Len(audio_tracks) THEN chosen_audio
    ELSE LET audio == audio_tracks[i]
             score == audio_score(audio, video_container, preferred)
         IN  IF score_beats(score, highest_score)
             THEN choose_audio_from(audio_tracks, i + 1, Some(audio), score,
                                    video_container, preferred)
             ELSE choose_audio_from(audio_tracks, i + 1, chosen_audio, highest_score,
                                    video_container, preferred)

choose_audio(audio_tracks, video_container, preferred) ==
    choose_audio_from(audio_tracks, 1,
                      IF audio_tracks = <<>> THEN None ELSE Some(audio_tracks[1]),
                      0, video_container, preferred)

map_arg(track) == "0:" \o ToString(track.index)

primary_audio_args(audio, container) ==
    IF audio.codec \in get_acceptable_audio_codecs(container)
    THEN Args(<<"copy">>)
         \o (IF container = "MP4" /\ audio.codec = "flac"
             THEN Args(<<"-strict", "experimental">>) ELSE <<>>)
    ELSE Args(<<preferred_audio_encoder(container), "-ac", "2">>)

primary_filename(video_container) ==
    IF video_container # None
    THEN "main." \o video_extension(unwrap(video_container))
    ELSE "main.webm"

fallback_args == Args(<<"-c:v", "libstvav1", "-c:a", "libopus", "-ac", "2">>)

primary_args(video, audio, video_container) ==
    Args(<<"-map", map_arg(video), "-map", map_arg(audio)>>)
    \o (IF video_container # None
        THEN Args(<<"-c:v", "copy", "-c:a">>)
             \o primary_audio_args(audio, unwrap(video_container))
        ELSE fallback_args)
    \o <<PathArg(primary_filename(video_container))>>

\* the bitrate left at zero
primary_source_without_bitrate(video, video_container, probe, prefix) ==
    [ bitrate      |-> 0,
      content_type |-> IF video_container # None
                       THEN video_mimetype(unwrap(video_container))
                       ELSE "video/webm",
      quality      |-> unwrap(video.scanline_count),
      url          |-> strcat(prefix, <<primary_filename(video_container)>>) ]

primary_source(video, video_container, probe, prefix) ==
    [ bitrate      |-> probe.bitrate,
      content_type |-> IF video_container # None
                       THEN video_mimetype(unwrap(video_container))
                       ELSE "video/webm",
      quality      |-> unwrap(video.scanline_count),
      url          |-> strcat(prefix, <<primary_filename(video_container)>>) ]

language_or_unknown(track) == unwrap_or(track.language, "unknown")

secondary_filename(audio_track, container) ==
    "audio_" \o ToString(audio_track.index) \o "_" \o language_or_unknown(audio_track)
        \o "." \o audio_extension(container)

secondary_is_skipped(audio_track, audio) == audio_track.index = audio.index

secondary_args(audio_track, container) ==
    Args(<<"-map", map_arg(audio_track), "-c", "copy">>)
    \o <<PathArg(secondary_filename(audio_track, container))>>

secondary_entry(audio_track, container, prefix) ==
    LET language == language_or_unknown(audio_track)
    IN  [ content_type |-> audio_mimetype(container),
          language     |-> unwrap_or(FF2CT(language), language),
          label        |-> build_language_string(language, audio_track.title),
          url          |-> strcat(prefix, <<secondary_filename(audio_track, container)>>) ]

\* the secondary loop from audio_tracks[i] on: [args, entries]
RECURSIVE secondary_from(_, _, _, _)
secondary_from(audio_tracks, i, audio, prefix) ==
    IF i > Len(audio_tracks) THEN [args |-> <<>>, entries |-> <<>>]
    ELSE LET audio_track == audio_tracks[i]
             container == find_audio_container(audio_track.codec)
             rest == secondary_from(audio_tracks, i + 1, audio, prefix)
         IN  IF secondary_is_skipped(audio_track, audio) \/ container = None
             THEN rest
             ELSE [ args    |-> secondary_args(audio_track, unwrap(container)) \o rest.args,
                    entries |-> <<secondary_entry(audio_track, unwrap(container), prefix)>>
                                \o rest.entries ]

sub_filename(sub_track) ==
    "sub_" \o ToString(sub_track.index) \o "_" \o language_or_unknown(sub_track) \o ".vtt"

sub_args(sub_track) ==
    Args(<<"-map", map_arg(sub_track)>>) \o <<PathArg(sub_filename(sub_track))>>

sub_name(sub_track) ==
    IF sub_track.language # None
    THEN build_language_string(unwrap(sub_track.language), sub_track.title)
    ELSE unwrap_or(sub_track.title, "Unknown")

sub_entry(sub_track, prefix) ==
    [ content_type |-> "text/vtt",
      url          |-> strcat(prefix, <<sub_filename(sub_track)>>),
      name         |-> sub_name(sub_track) ]

\* the Blu-ray bitmap codec left out of the list
sub_is_skipped_dvd_dvb_only(sub_track) ==
    sub_track.codec \in {"dvb_subtitle", "dvd_subtitle", "xsub"}

sub_is_skipped(sub_track) == sub_track.codec \in BITMAP_SUBTITLE_CODECS

\* the subtitle loop from subtitle_tracks[i] on: [args, entries]
RECURSIVE subtitles_from(_, _, _)
subtitles_from(subtitle_tracks, i, prefix) ==
    IF i > Len(subtitle_tracks) THEN [args |-> <<>>, entries |-> <<>>]
    ELSE LET sub_track == subtitle_tracks[i]
             rest == subtitles_from(subtitle_tracks, i + 1, prefix)
         IN  IF sub_is_skipped(sub_track)
             THEN rest
             ELSE [ args    |-> sub_args(sub_track) \o rest.args,
                    entries |-> <<sub_entry(sub_track, prefix)>> \o rest.entries ]

header_args == Args(<<"-hide_banner", "-strict", "-2", "-i", media_file>>)

\* whether the block that muxes the primary output and lists the secondary
\* audio tracks is entered: a first video track and a chosen audio track
enters_primary(video_tracks, chosen_audio) == video_tracks # <<>> /\ chosen_audio # None

\* scanline_count.unwrap() of the primary video track
unwrap_panics(video) == video.scanline_count = None

\* the last video track taken instead of the first
primary_video_last(video_tracks) == video_tracks[Len(video_tracks)]

\* video_tracks.first()
primary_video(video_tracks) == video_tracks[1]

\* remux as a whole: [panicked, command, video]
remux(probe, prefix, preferred) ==
    LET video_tracks    == tracks_of_kind(probe, "Video")
        audio_tracks    == tracks_of_kind(probe, "Audio")
        subtitle_tracks == tracks_of_kind(probe, "Subtitle")
        video           == primary_video(video_tracks)
        video_container == find_video_container(video.codec)
        chosen_audio    == IF video_tracks = <<>> THEN None
                           ELSE choose_audio(audio_tracks, video_container, preferred)
        primary         == enters_primary(video_tracks, chosen_audio)
        audio           == unwrap(chosen_audio)
        secondary       == secondary_from(audio_tracks, 1, audio, prefix)
        subtitles       == subtitles_from(subtitle_tracks, 1, prefix)
    IN  IF primary /\ unwrap_panics(video)
        THEN [panicked |-> TRUE]
        ELSE [ panicked |-> FALSE,
               command  |-> header_args
                            \o (IF primary
                                THEN primary_args(video, audio, video_container)
                                     \o secondary.args
                                ELSE <<>>)
                            \o subtitles.args,
               video    |-> [ title       |-> unwrap_or(probe.title, file_stem(media_file)),
                              duration    |-> probe.duration,
                              sources     |-> IF primary
                                              THEN <<primary_source(video, video_container,
                                                                    probe, prefix)>>
                                              ELSE <<>>,
                              audio_tracks |-> IF primary THEN secondary.entries ELSE <<>>,
                              text_tracks  |-> subtitles.entries ] ]

(***************************************************************************)
(* Inputs of remux: probe results, url prefixes, preferred languages       *)
(***************************************************************************)
MaxTracks == 3

Stream(kind, codec, scanline_count, language, title) ==
    [ kind |-> kind, codec |-> codec, scanline_count |-> scanline_count,
      language |-> language, title |-> title ]

VideoStreams ==
    { Stream("Video", "h264", Some(1080), None, None),
      Stream("Video", "h264", None, None, None),
      Stream("Video", "vp9", Some(720), None, None),
      Stream("Video", "theora", Some(480), None, None),
      Stream("Video", "mpeg1video", Some(360), None, None),
      Stream("Video", "mpeg1video", None, None, None) }

AudioStreams ==
    { Stream("Audio", "aac", None, Some("eng"), None),
      Stream("Audio", "aac", None, Some("fre"), Some("Commentary")),
      Stream("Audio", "opus", None, None, None),
      Stream("Audio", "flac", None, Some("fre"), None),
      Stream("Audio", "mp3", None, Some("eng"), None),
      Stream("Audio", "ac3", None, Some("eng"), None) }

SubtitleStreams ==
    { Stream("Subtitle", "subrip", None, Some("eng"), None),
      Stream("Subtitle", "ass", None, Some("jpn"), Some("Signs")),
      Stream("Subtitle", "mov_text", None, None, Some("Forced")),
      Stream("Subtitle", "webvtt", None, None, None),
      Stream("Subtitle", "hdmv_pgs_subtitle", None, Some("eng"), Some("Full")) }

StreamPool == VideoStreams \cup AudioStreams \cup SubtitleStreams

\* the probing tool numbers the streams of a file 0, 1, 2, ... in order
WithIndex(streams) ==
    [ i \in 1..Len(streams) |->
        [ index |-> i - 1, kind |-> streams[i].kind, codec |-> streams[i].codec,
          scanline_count |-> streams[i].scanline_count,
          language |-> streams[i].language, title |-> streams[i].title ] ]

\* the container-level facts of a probe result and the url prefix of a call
Calls ==
    { [title |-> None, duration |-> 0, bitrate |-> 0, url_prefix |-> ""],
      [title |-> Some("Big Buck Bunny"), duration |-> 596, bitrate |-> 2500000,
       url_prefix |-> "https://media.example/v/"] }

PreferredLanguages == {None, Some("eng")}

NoLine == [kind |-> "", params |-> <<>>]
NoCommand == <<>>
NoManifest == [title |-> "", duration |-> 0, sources |-> <<>>,
               audio_tracks |-> <<>>, text_tracks |-> <<>>]

InitProbeIdle ==
    /\ ppc = "idle" /\ nlines = 0 /\ line = NoLine /\ tracks = <<>>
    /\ ptitle = None /\ pduration = 0 /\ pbitrate = 0

Init ==
    /\ \E n \in 0..MaxTracks : \E streams \in [1..n -> StreamPool] : \E c \in Calls :
          /\ ffprobe = [ tracks |-> WithIndex(streams), title |-> c.title,
                         duration |-> c.duration, bitrate |-> c.bitrate ]
          /\ url_prefix = c.url_prefix
    /\ preferred_language \in PreferredLanguages
    /\ pc = "ready"
    /\ command = NoCommand
    /\ manifest = NoManifest
    /\ InitProbeIdle

\* one call of remux: it returns (Command, CytubeVideo) or panics
Remux ==
    /\ pc = "ready"
    /\ LET r == remux(ffprobe, url_prefix, preferred_language)
       IN  IF r.panicked
           THEN /\ pc' = "panicked"
                /\ UNCHANGED <<command, manifest>>
           ELSE /\ pc' = "returned"
                /\ command' = r.command
                /\ manifest' = r.video
    /\ UNCHANGED <<ffprobe, url_prefix, preferred_language, probe_vars>>

Next == Remux

Spec == Init /\ [][Next]_vars

(***************************************************************************)
(* ffprobe (ffprobe.rs)                                                    *)
(*                                                                         *)
(* A line of the tool's compact output, "kind|k1=v1|k2=v2|...", is the     *)
(* record [kind, params] that parse_ffmpeg_line splits it into: params is  *)
(* the sequence of <<key, value>> pairs.                                   *)
(***************************************************************************)
MaxLines == 2

\* TrackType::from_str as strum derives it: the snake_case variant names,
\* compared exactly
parse_track_type(v) ==
    CASE v = "video" -> Some("Video")
      [] v = "audio" -> Some("Audio")
      [] v = "subtitle" -> Some("Subtitle")
      [] OTHER -> None

\* the numbers the tool's output carries here
Numbers == {0, 1, 12, 596, 720, 128000, 2500000}

\* str::parse of a decimal number
parse_int(v) == CHOOSE n \in Numbers : ToString(n) = v

\* str::parse::<f32> of the tool's "seconds.micros" form (whole seconds here)
parse_f32(v) == CHOOSE n \in Numbers : ToString(n) \o ".000000" = v

NoStream ==
    [ kind |-> None, codec |-> None, scanline_count |-> None, language |-> None,
      title |-> None, index |-> None, skipped |-> FALSE ]

\* a codec_type that does not parse left unset, the line not abandoned
stream_param_without_continue(acc, k, v) ==
    CASE k = "codec_type" -> [acc EXCEPT !.kind = parse_track_type(v)]
      [] k = "index" -> [acc EXCEPT !.index = Some(parse_int(v))]
      [] k = "codec_name" -> [acc EXCEPT !.codec = Some(v)]
      [] k = "coded_height" -> [acc EXCEPT !.scanline_count = Some(parse_int(v))]
      [] k = "tag:language" -> [acc EXCEPT !.language = Some(v)]
      [] k = "tag:title" -> [acc EXCEPT !.title = Some(v)]
      [] OTHER -> acc

\* one step of the loop over a stream line's params
stream_param(acc, k, v) ==
    CASE k = "codec_type" ->
            IF parse_track_type(v) = None
            THEN [acc EXCEPT !.skipped = TRUE]
            ELSE [acc EXCEPT !.kind = parse_track_type(v)]
      [] k = "index" -> [acc EXCEPT !.index = Some(parse_int(v))]
      [] k = "codec_name" -> [acc EXCEPT !.codec = Some(v)]
      [] k = "coded_height" -> [acc EXCEPT !.scanline_count = Some(parse_int(v))]
      [] k = "tag:language" -> [acc EXCEPT !.language = Some(v)]
      [] k = "tag:title" -> [acc EXCEPT !.title = Some(v)]
      [] OTHER -> acc

\* the loop over a stream line's params; `continue 'a` leaves it at once
RECURSIVE stream_params(_, _)
stream_params(params, acc) ==
    IF params = <<>> \/ acc.skipped THEN acc
    ELSE stream_params(Tail(params), stream_param(acc, Head(params)[1], Head(params)[2]))

\* the three expect calls after the loop, in order
expect_failure(acc) ==
    IF acc.index = None THEN Some("no index")
    ELSE IF acc.kind = None THEN Some("no codec_type")
    ELSE IF acc.codec = None THEN Some("no codec_name")
    ELSE None

track_of(acc) ==
    [ index |-> unwrap(acc.index), kind |-> unwrap(acc.kind), codec |-> unwrap(acc.codec),
      scanline_count |-> acc.scanline_count, language |-> acc.language,
      title |-> acc.title ]

\* one step of the loop over a format line's params: [title, duration, bitrate]
format_param(acc, k, v) ==
    CASE k = "duration" -> [acc EXCEPT !.duration = parse_f32(v)]
      [] k = "bit_rate" -> [acc EXCEPT !.bitrate = parse_int(v)]
      [] k = "tag:title" -> [acc EXCEPT !.title = Some(v)]
      [] OTHER -> acc

RECURSIVE format_params(_, _)
format_params(params, acc) ==
    IF params = <<>> THEN acc
    ELSE format_params(Tail(params), format_param(acc, Head(params)[1], Head(params)[2]))

(***************************************************************************)
(* The lines the probing tool may print                                    *)
(***************************************************************************)
Param(k, v) == <<k, v>>
Opt(present, param) == IF present THEN <<param>> ELSE <<>>

\* which of coded_height, tag:language, tag:title and an unrecognized key
\* (profile) a stream line carries
OptionalParams ==
    { <<FALSE, FALSE, FALSE, FALSE>>, <<TRUE, FALSE, FALSE, FALSE>>,
      <<FALSE, TRUE, FALSE, FALSE>>, <<FALSE, FALSE, TRUE, FALSE>>,
      <<TRUE, TRUE, TRUE, FALSE>>, <<FALSE, FALSE, FALSE, TRUE>>,
      <<TRUE, TRUE, TRUE, TRUE>> }

StreamLines ==
    { [ kind   |-> "stream",
        params |-> Opt(index # "", Param("index", index))
                   \o Opt(named, Param("codec_name", "aac"))
                   \o Opt(optional[4], Param("profile", "LC"))
                   \o Opt(type # "", Param("codec_type", type))
                   \o Opt(optional[1], Param("coded_height", "720"))
                   \o Opt(optional[2], Param("tag:language", "eng"))
                   \o Opt(optional[3], Param("tag:title", "Main")) ] :
        index \in {"", "0", "1"},
        named \in BOOLEAN,
        type \in {"", "video", "audio", "subtitle", "data", "Video"},
        optional \in OptionalParams }

FormatLines ==
    { [ kind   |-> "format",
        params |-> <<Param("duration", "596.000000"), Param("bit_rate", "2500000"),
                     Param("tag:title", "Big Buck Bunny")>> ],
      [ kind   |-> "format",
        params |-> <<Param("filename", "movie.mkv"), Param("duration", "12.000000"),
                     Param("bit_rate", "128000")>> ] }

\* the empty last line, and records of other kinds
OtherLines == { [kind |-> "", params |-> <<>>],
                [kind |-> "program", params |-> <<Param("program_id", "1")>>] }

InitRemuxIdle ==
    /\ ffprobe = [tracks |-> <<>>, title |-> None, duration |-> 0, bitrate |-> 0]
    /\ url_prefix = ""
    /\ preferred_language = None
    /\ pc = "idle"
    /\ command = NoCommand
    /\ manifest = NoManifest

InitProbe ==
    /\ ppc = "start" /\ nlines = 0 /\ line = NoLine /\ tracks = <<>>
    /\ ptitle = None /\ pduration = 0 /\ pbitrate = 0
    /\ InitRemuxIdle

\* the tool is run: a failure to run it, or a non-zero exit status, is an Err
RunTool ==
    /\ ppc = "start"
    /\ \E success \in BOOLEAN : ppc' = IF success THEN "reading" ELSE "err"
    /\ UNCHANGED <<nlines, line, tracks, ptitle, pduration, pbitrate, remux_vars>>

CanRead == ppc = "reading" /\ nlines < MaxLines

ReadFormatLine ==
    /\ CanRead
    /\ \E l \in FormatLines :
          LET acc == format_params(l.params, [title |-> ptitle, duration |-> pduration,
                                              bitrate |-> pbitrate])
          IN  /\ line' = l
              /\ ptitle' = acc.title
              /\ pduration' = acc.duration
              /\ pbitrate' = acc.bitrate
    /\ nlines' = nlines + 1
    /\ UNCHANGED <<ppc, tracks, remux_vars>>

ReadStreamLine ==
    /\ CanRead
    /\ \E l \in StreamLines :
          LET acc == stream_params(l.params, NoStream)
          IN  /\ line' = l
              /\ IF acc.skipped
                 THEN UNCHANGED <<ppc, tracks>>
                 ELSE IF expect_failure(acc) # None
                 THEN ppc' = unwrap(expect_failure(acc)) /\ UNCHANGED tracks
                 ELSE tracks' = Append(tracks, track_of(acc)) /\ UNCHANGED ppc
    /\ nlines' = nlines + 1
    /\ UNCHANGED <<ptitle, pduration, pbitrate, remux_vars>>

ReadOtherLine ==
    /\ CanRead
    /\ \E l \in OtherLines : line' = l
    /\ nlines' = nlines + 1
    /\ UNCHANGED <<ppc, tracks, ptitle, pduration, pbitrate, remux_vars>>

\* the output is exhausted: Ok(FFprobeResult {tracks, title, duration, bitrate})
Finish ==
    /\ ppc = "reading"
    /\ ppc' = "ok"
    /\ UNCHANGED <<nlines, line, tracks, ptitle, pduration, pbitrate, remux_vars>>

NextProbe == RunTool \/ ReadFormatLine \/ ReadStreamLine \/ ReadOtherLine \/ Finish

SpecProbe == InitProbe /\ [][NextProbe]_vars

(***************************************************************************)
(* Reading the returned Command and manifest                               *)
(***************************************************************************)
Videos == SelectSeq(ffprobe.tracks, LAMBDA t : t.kind = "Video")
Audios == SelectSeq(ffprobe.tracks, LAMBDA t : t.kind = "Audio")
Subtitles == SelectSeq(ffprobe.tracks, LAMBDA t : t.kind = "Subtitle")

Returned == pc = "returned"

\* The arguments after the input file, cut after each output path: one
\* operation of the plan per output file.
RECURSIVE Segments(_, _)
Segments(args, cur) ==
    IF args = <<>> THEN <<>>
    ELSE IF Head(args).path
         THEN <<[opts |-> cur, file |-> Head(args).s]>> \o Segments(Tail(args), <<>>)
         ELSE Segments(Tail(args), Append(cur, Head(args).s))

PlanOps == Segments(SubSeq(command, Len(header_args) + 1, Len(command)), <<>>)

\* the stream specifiers an operation maps
OpMaps(op) == { op.opts[k + 1] : k \in { j \in 1..(Len(op.opts) - 1) : op.opts[j] = "-map" } }

StreamSpec(track) == "0:" \o ToString(track.index)

OpsOfKind(kindTracks) ==
    SelectSeq(PlanOps, LAMBDA op :
        op.opts # <<>> /\ OpMaps(op) \subseteq { StreamSpec(kindTracks[i]) : i \in DOMAIN kindTracks })

\* the operation writing the primary output: it maps a video stream
PrimaryOps ==
    SelectSeq(PlanOps, LAMBDA op :
        \E i \in DOMAIN Videos : StreamSpec(Videos[i]) \in OpMaps(op))

HasPrimary == Returned /\ Len(PrimaryOps) = 1 /\ Len(manifest.sources) = 1

\* the audio tracks the primary operation maps
MuxedAudio == { i \in DOMAIN Audios : HasPrimary /\ StreamSpec(Audios[i]) \in OpMaps(PrimaryOps[1]) }

FirstContainer == find_video_container(Videos[1].codec)

Urls(entries) == [i \in DOMAIN entries |-> entries[i].url]

ManifestUrls ==
    Urls(manifest.sources) \o Urls(manifest.audio_tracks) \o Urls(manifest.text_tracks)

(***************************************************************************)
(* C1                                                                      *)
(***************************************************************************)
ClaimScore(a) ==
    (IF FirstContainer = None
        \/ a.codec \in get_acceptable_audio_codecs(unwrap(FirstContainer)) THEN 1 ELSE 0)
    + (IF preferred_language = None \/ a.language = preferred_language THEN 1 ELSE 0)

\* the first position, in probe order, of an audio track with the maximal score
FirstMaximal ==
    CHOOSE k \in DOMAIN Audios :
        /\ \A j \in DOMAIN Audios : ClaimScore(Audios[j]) <= ClaimScore(Audios[k])
        /\ \A j \in 1..(k - 1) : ClaimScore(Audios[j]) < ClaimScore(Audios[k])

\* C1: when remux returns for a probe with a video track and at least one
\* audio track, the primary output maps the first video track and exactly one
\* audio track: the first one in probe order among those with the maximal
\* score (codec point plus language point).
C1_FirstMaximalAudioIsMuxed ==
    (Returned /\ Videos # <<>> /\ Audios # <<>>) =>
        /\ HasPrimary
        /\ PrimaryOps[1] = PlanOps[1]
        /\ SubSeq(PrimaryOps[1].opts, 1, 4) =
               <<"-map", StreamSpec(Videos[1]), "-map", StreamSpec(Audios[FirstMaximal])>>
        /\ MuxedAudio = {FirstMaximal}

\* the claim's example: A compatible/'fre' before B incompatible/'eng',
\* preferred 'eng': both score 1 and A is muxed
C1_Witness ==
    /\ Returned
    /\ preferred_language = Some("eng")
    /\ Len(Videos) = 1 /\ Videos[1].codec = "h264"
    /\ Len(Audios) = 2
    /\ Audios[1].codec = "aac" /\ Audios[1].language = Some("fre")
    /\ Audios[2].codec = "ac3" /\ Audios[2].language = Some("eng")
    /\ MuxedAudio = {1}

(***************************************************************************)
(* C2                                                                      *)
(***************************************************************************)
\* the tables as the claim states them
ClaimedContainer(codec) ==
    CASE codec \in {"av1", "vp8", "vp9"} -> "WEBM"
      [] codec \in {"h264", "hevc", "mpeg4", "mpeg2video"} -> "MP4"
      [] codec = "theora" -> "OGG"
      [] OTHER -> "none"

ClaimedAccepted(c) ==
    CASE c = "MP4" -> {"aac", "alac", "flac", "opus", "mp3"}
      [] c = "WEBM" -> {"opus", "vorbis"}
      [] c = "OGG" -> {"opus", "vorbis", "flac"}

ClaimedEncoder(c) == IF c = "MP4" THEN "aac" ELSE "libopus"

KnownVideoCodecs ==
    {"av1", "vp8", "vp9", "h264", "hevc", "mpeg4", "mpeg2video", "theora",
     "mpeg1video", "wmv3", "prores"}

\* the audio track the primary operation maps
TheMuxedAudio == Audios[CHOOSE i \in MuxedAudio : TRUE]

\* C2: the video codec resolves to the container the claim's table gives; when
\* the first video track's codec resolves to a container C and a primary
\* output is produced, the video is copied, the chosen audio is copied if and
\* only if its codec is in C's accepted set and is otherwise encoded with C's
\* preferred encoder and "-ac 2", the output is main.<C's extension> and the
\* Source's contentType is C's MIME type.
C2_CopyOrEncodeFollowsContainer ==
    /\ \A codec \in KnownVideoCodecs :
          find_video_container(codec) =
              (IF ClaimedContainer(codec) = "none" THEN None
               ELSE Some(ClaimedContainer(codec)))
    /\ (HasPrimary /\ ClaimedContainer(Videos[1].codec) # "none") =>
          LET C    == ClaimedContainer(Videos[1].codec)
              op   == PrimaryOps[1]
              a    == TheMuxedAudio
              tail == SubSeq(op.opts, 8, Len(op.opts))
          IN  /\ Cardinality(MuxedAudio) = 1
              /\ SubSeq(op.opts, 5, 7) = <<"-c:v", "copy", "-c:a">>
              /\ IF a.codec \in ClaimedAccepted(C)
                 THEN tail \in {<<"copy">>, <<"copy", "-strict", "experimental">>}
                 ELSE tail = <<ClaimedEncoder(C), "-ac", "2">>
              /\ op.file = "main." \o video_extension(C)
              /\ manifest.sources[1].content_type = video_mimetype(C)

\* vp9 video with a flac track chosen: flac is not accepted by WEBM, so it
\* is encoded with libopus
C2_Witness ==
    /\ HasPrimary
    /\ Videos[1].codec = "vp9"
    /\ Cardinality(MuxedAudio) = 1
    /\ TheMuxedAudio.codec = "flac"
    /\ PrimaryOps[1].file = "main.webm"
    /\ SubSeq(PrimaryOps[1].opts, 5, 10) = <<"-c:v", "copy", "-c:a", "libopus", "-ac", "2">>

(***************************************************************************)
(* C3                                                                      *)
(***************************************************************************)
\* the file names the command writes, in command order
OutputFiles == [i \in DOMAIN PlanOps |-> PlanOps[i].file]

\* C3: in every returned result, the manifest's entries (sources, then
\* audioTracks, then textTracks) and the command's output files correspond
\* one to one, in order, and each entry's url is the url prefix followed by
\* exactly that file name.
C3_UrlIsPrefixPlusFileName ==
    Returned =>
        /\ Len(ManifestUrls) = Len(OutputFiles)
        /\ \A i \in DOMAIN ManifestUrls : ManifestUrls[i] = url_prefix \o OutputFiles[i]
        /\ \A i, j \in DOMAIN OutputFiles : OutputFiles[i] = OutputFiles[j] => i = j

\* a source and a secondary audio track under a non-empty prefix
C3_Witness ==
    /\ Returned
    /\ url_prefix = "https://media.example/v/"
    /\ Len(manifest.sources) = 1
    /\ Len(manifest.audio_tracks) = 1
    /\ OutputFiles = <<"main.mp4", "audio_2_unknown.ogg">>
    /\ ManifestUrls = << "https://media.example/v/main.mp4",
                         "https://media.example/v/audio_2_unknown.ogg" >>

(***************************************************************************)
(* C4                                                                      *)
(***************************************************************************)
ClaimedAudioContainer(codec) ==
    CASE codec \in {"aac", "alac", "aac_latm"} -> "M4A"
      [] codec \in {"opus", "vorbis", "flac"} -> "OGG"
      [] codec = "mp3" -> "PseudoM4A"
      [] OTHER -> "none"

MuxedAudioIndexes == { Audios[i].index : i \in MuxedAudio }

\* the audio tracks the claim gives a secondary output, in probe order
ClaimedSecondary ==
    SelectSeq(Audios, LAMBDA t :
        t.index \notin MuxedAudioIndexes /\ ClaimedAudioContainer(t.codec) # "none")

ClaimedSecondaryFile(t) ==
    "audio_" \o ToString(t.index) \o "_"
        \o (IF t.language = None THEN "unknown" ELSE unwrap(t.language))
        \o "." \o audio_extension(ClaimedAudioContainer(t.codec))

\* the operations that map audio streams only
AudioOnlyOps == OpsOfKind(Audios)

SecondaryAsClaimed ==
    /\ AudioOnlyOps =
          [ i \in DOMAIN ClaimedSecondary |->
              [ opts |-> <<"-map", StreamSpec(ClaimedSecondary[i]), "-c", "copy">>,
                file |-> ClaimedSecondaryFile(ClaimedSecondary[i]) ] ]
    /\ Urls(manifest.audio_tracks) =
          [ i \in DOMAIN ClaimedSecondary |->
              url_prefix \o ClaimedSecondaryFile(ClaimedSecondary[i]) ]

\* C4 as claimed: for every probe result remux returns a plan for, with or
\* without a primary output and with or without a video track, every audio
\* track other than the muxed one whose codec maps to an AudioContainer has
\* exactly one Copy operation audio_<index>_<language>.<ext> and one
\* AudioTrack, in probe order, and no other audio track has either.
C4_SecondaryAudioForEveryProbe == Returned => SecondaryAsClaimed

\* What the code does: the same, for the probes that have a video track.
C4_SecondaryAudioWhenVideoExists == (Returned /\ Videos # <<>>) => SecondaryAsClaimed

\* ... and nothing at all for the audio tracks of a probe without one.
C4_NoAudioOutputWithoutVideo ==
    (Returned /\ Videos = <<>>) => (AudioOnlyOps = <<>> /\ manifest.audio_tracks = <<>>)

(***************************************************************************)
(* C5                                                                      *)
(***************************************************************************)
ClaimedBitmapCodecs == {"dvb_subtitle", "dvd_subtitle", "hdmv_pgs_subtitle", "xsub"}

ClaimedTextSubtitles == SelectSeq(Subtitles, LAMBDA t : t.codec \notin ClaimedBitmapCodecs)

ClaimedSubFile(t) ==
    "sub_" \o ToString(t.index) \o "_"
        \o (IF t.language = None THEN "unknown" ELSE unwrap(t.language)) \o ".vtt"

ClaimedSubName(t) ==
    IF t.language # None THEN build_language_string(unwrap(t.language), t.title)
    ELSE IF t.title # None THEN unwrap(t.title)
    ELSE "Unknown"

\* C5: in every returned result, whatever video and audio tracks exist, the
\* operations that map subtitle streams are exactly one "-map 0:<index>
\* sub_<index>_<language or unknown>.vtt" per subtitle track that is not of a
\* bitmap codec, in probe order, and textTracks holds exactly one text/vtt
\* entry for each of them, named by language label, else title, else
\* "Unknown"; a bitmap subtitle track has no operation and no entry.
C5_SubtitlesToVttExceptBitmap ==
    Returned =>
        /\ OpsOfKind(Subtitles) =
              [ i \in DOMAIN ClaimedTextSubtitles |->
                  [ opts |-> <<"-map", StreamSpec(ClaimedTextSubtitles[i])>>,
                    file |-> ClaimedSubFile(ClaimedTextSubtitles[i]) ] ]
        /\ manifest.text_tracks =
              [ i \in DOMAIN ClaimedTextSubtitles |->
                  [ content_type |-> "text/vtt",
                    url |-> url_prefix \o ClaimedSubFile(ClaimedTextSubtitles[i]),
                    name |-> ClaimedSubName(ClaimedTextSubtitles[i]) ] ]
        /\ \A i \in DOMAIN Subtitles :
              Subtitles[i].codec \in ClaimedBitmapCodecs =>
                  \A k \in DOMAIN PlanOps : StreamSpec(Subtitles[i]) \notin OpMaps(PlanOps[k])

\* no video, no audio: a bitmap subtitle is dropped, a titled one without a
\* language is converted and named by its title
C5_Witness ==
    /\ Returned
    /\ Videos = <<>> /\ Audios = <<>>
    /\ Len(Subtitles) = 2
    /\ Subtitles[1].codec = "hdmv_pgs_subtitle"
    /\ Subtitles[2].codec = "mov_text"
    /\ OutputFiles = <<"sub_1_unknown.vtt">>
    /\ Len(manifest.text_tracks) = 1
    /\ manifest.text_tracks[1].name = "Forced"

(***************************************************************************)
(* C6                                                                      *)
(***************************************************************************)
\* C6: a returned manifest has at most one Source; it has one exactly when
\* the probe has a video track and an audio track, and then the Source and
\* the primary operation describe the first video track in probe order.
C6_AtMostOneSourceOfFirstVideo ==
    Returned =>
        /\ Len(manifest.sources) <= 1
        /\ Len(manifest.sources) = 1 <=> (Videos # <<>> /\ Audios # <<>>)
        /\ Len(PrimaryOps) = Len(manifest.sources)
        /\ Len(manifest.sources) = 1 =>
              /\ manifest.sources[1].quality \in Videos[1].scanline_count
              /\ manifest.sources[1].content_type =
                    (IF FirstContainer = None THEN "video/webm"
                     ELSE video_mimetype(unwrap(FirstContainer)))
              /\ \A i \in DOMAIN Videos :
                    StreamSpec(Videos[i]) \in OpMaps(PrimaryOps[1]) <=> i = 1

\* two video tracks of different containers and an audio track: one Source,
\* of the first
C6_Witness ==
    /\ Returned
    /\ Len(Videos) = 2 /\ Audios # <<>>
    /\ Videos[1].codec = "h264" /\ Videos[2].codec = "vp9"
    /\ Len(manifest.sources) = 1
    /\ manifest.sources[1].content_type = "video/mp4"
    /\ manifest.sources[1].quality = 1080

(***************************************************************************)
(* C7                                                                      *)
(***************************************************************************)
\* the AV1 encoders of the transcode tool (ffmpeg -encoders)
AV1Encoders ==
    {"libsvtav1", "libaom-av1", "librav1e", "av1_nvenc", "av1_qsv", "av1_amf", "av1_vaapi"}

\* the tracks whose language is the preferred one (all, when none is asked for)
LanguageMatches ==
    { i \in DOMAIN Audios :
        preferred_language = None \/ Audios[i].language = preferred_language }

Least(S) == CHOOSE i \in S : \A j \in S : i <= j

FallbackCase == Returned /\ Videos # <<>> /\ FirstContainer = None /\ Audios # <<>>

\* The fallback but for the name of the video encoder: main.webm, video/webm,
\* nothing copied, audio to libopus with 2 channels, and the audio track is
\* the first whose language matches, else the first.
FallbackShape ==
    /\ HasPrimary
    /\ PrimaryOps[1].file = "main.webm"
    /\ manifest.sources[1].content_type = "video/webm"
    /\ Len(PrimaryOps[1].opts) = 10
    /\ PrimaryOps[1].opts[5] = "-c:v"
    /\ SubSeq(PrimaryOps[1].opts, 7, 10) = <<"-c:a", "libopus", "-ac", "2">>
    /\ \A k \in DOMAIN PrimaryOps[1].opts : PrimaryOps[1].opts[k] # "copy"
    /\ MuxedAudio = {IF LanguageMatches = {} THEN 1 ELSE Least(LanguageMatches)}

\* C7 as claimed: when the first video track's codec resolves to no
\* container and an audio track exists, the primary output is main.webm
\* (video/webm), the video is re-encoded with an AV1 encoder and the audio
\* with Opus and 2 channels, nothing is copied, and the audio track is chosen
\* by language match and probe order alone.
C7_FallbackReencodesToAV1AndOpus ==
    FallbackCase => (FallbackShape /\ PrimaryOps[1].opts[6] \in AV1Encoders)

\* What the code does: all of it, with the video encoder named "libstvav1".
C7_FallbackAsCoded ==
    FallbackCase => (FallbackShape /\ PrimaryOps[1].opts[6] = "libstvav1")

(***************************************************************************)
(* C8                                                                      *)
(***************************************************************************)
SourcesDescribeFirstVideo ==
    \A i \in DOMAIN manifest.sources :
        /\ manifest.sources[i].quality \in Videos[1].scanline_count
        /\ manifest.sources[i].bitrate = ffprobe.bitrate

NothingReturned == pc = "panicked" /\ command = NoCommand /\ manifest = NoManifest

FirstVideoLacksScanlines == Videos # <<>> /\ Videos[1].scanline_count = None

\* C8 as claimed: every Source has the first video track's scanline count
\* as quality and the probe's bitrate; whenever the first video track has no
\* scanline count, remux fails and returns neither a plan nor a manifest.
C8_FailsWheneverScanlinesMissing ==
    pc # "ready" =>
        /\ SourcesDescribeFirstVideo
        /\ FirstVideoLacksScanlines => NothingReturned

\* C8 amended: every Source has the first video track's scanline count as
\* quality and the probe's bitrate; remux fails, returning neither a plan
\* nor a manifest, exactly when the first video track has no scanline count
\* and the probe has at least one audio track.
C8_FailsWhenSourceNeedsMissingScanlines ==
    pc # "ready" =>
        /\ SourcesDescribeFirstVideo
        /\ pc = "panicked" <=> (FirstVideoLacksScanlines /\ Audios # <<>>)
        /\ pc = "panicked" => NothingReturned

\* the failure, for a probe whose subtitle would otherwise have been planned
C8_Witness ==
    /\ NothingReturned
    /\ FirstVideoLacksScanlines
    /\ Audios # <<>>
    /\ \E i \in DOMAIN Subtitles : Subtitles[i].codec = "subrip"

(***************************************************************************)
(* C10                                                                     *)
(***************************************************************************)
CompatibleAudio ==
    { i \in DOMAIN Audios :
        Audios[i].codec \in get_acceptable_audio_codecs(unwrap(FirstContainer)) }

PrimaryAudioIsCopied == PrimaryOps[1].opts[7] = "-c:a" /\ PrimaryOps[1].opts[8] = "copy"

FirstCompatibleIsCopied ==
    /\ HasPrimary
    /\ IF CompatibleAudio # {}
       THEN MuxedAudio = {Least(CompatibleAudio)} /\ PrimaryAudioIsCopied
       ELSE MuxedAudio = {1} /\ ~PrimaryAudioIsCopied

ContainerCase == Returned /\ Videos # <<>> /\ Audios # <<>> /\ FirstContainer # None

\* C10: with no preferred language and a container resolved for the first
\* video track, the primary audio is the first audio track in probe order
\* whose codec the container accepts, and it is copied; the primary audio is
\* re-encoded only when no audio track has an accepted codec.
C10_FirstCompatibleIsCopiedWithoutPreference ==
    (ContainerCase /\ preferred_language = None) => FirstCompatibleIsCopied

\* The same with a preferred language (the claim says it need not hold).
C10_FirstCompatibleIsCopiedAlways == ContainerCase => FirstCompatibleIsCopied

\* an incompatible track first, a compatible one second: the second is copied
C10_Witness ==
    /\ ContainerCase /\ preferred_language = None
    /\ Videos[1].codec = "h264"
    /\ Len(Audios) = 2
    /\ Audios[1].codec = "ac3" /\ Audios[2].codec = "aac"
    /\ MuxedAudio = {2}
    /\ PrimaryAudioIsCopied

(***************************************************************************)
(* C9                                                                      *)
(***************************************************************************)
ValuesOf(l, k) == { l.params[i][2] : i \in { j \in DOMAIN l.params : l.params[j][1] = k } }
HasKey(l, k) == ValuesOf(l, k) # {}
OptionalValue(l, k) == ValuesOf(l, k)

ClaimedTrackTypes == {"video", "audio", "subtitle"}

\* a codec_type value that is none of video, audio, subtitle
HasForeignType(l) == \E v \in ValuesOf(l, "codec_type") : v \notin ClaimedTrackTypes
HasValidType(l) == HasKey(l, "codec_type") /\ ~HasForeignType(l)

ClaimedKind(v) ==
    CASE v = "video" -> "Video" [] v = "audio" -> "Audio" [] v = "subtitle" -> "Subtitle"

NumberOf(v) == CHOOSE n \in Numbers : ToString(n) = v

ClaimedTrack(l) ==
    [ index |-> NumberOf(unwrap(ValuesOf(l, "index"))),
      kind |-> ClaimedKind(unwrap(ValuesOf(l, "codec_type"))),
      codec |-> unwrap(ValuesOf(l, "codec_name")),
      scanline_count |-> { NumberOf(v) : v \in ValuesOf(l, "coded_height") },
      language |-> OptionalValue(l, "tag:language"),
      title |-> OptionalValue(l, "tag:title") ]

Panicked == ppc \in {"no index", "no codec_type", "no codec_name"}

\* C9: each step that consumes a "stream" line
\*  - whose codec_type is none of video, audio, subtitle leaves the track
\*    list alone and raises no error, whatever other keys the line has;
\*  - whose codec_type is valid but which lacks index or codec_name panics,
\*    and after a panic nothing is ever returned;
\*  - whose codec_type is valid and which has index and codec_name appends
\*    one track at the end of the list, with coded_height, tag:language and
\*    tag:title optional and unrecognized keys ignored.
C9_StreamLineParsing ==
    [][ /\ Panicked => ppc' = ppc
        /\ (nlines' = nlines + 1 /\ line'.kind = "stream") =>
              /\ HasForeignType(line') => (tracks' = tracks /\ ppc' = "reading")
              /\ (HasValidType(line')
                    /\ ~(HasKey(line', "index") /\ HasKey(line', "codec_name")))
                   => (Panicked' /\ tracks' = tracks)
              /\ (HasValidType(line') /\ HasKey(line', "index")
                    /\ HasKey(line', "codec_name"))
                   => (tracks' = Append(tracks, ClaimedTrack(line')) /\ ppc' = "reading")
      ]_vars

\* a track from the first line, then a data stream without index or
\* codec_name skipped without an error
C9_Witness ==
    /\ ppc = "ok"
    /\ nlines = 2
    /\ line.kind = "stream"
    /\ ValuesOf(line, "codec_type") = {"data"}
    /\ ~HasKey(line, "index") /\ ~HasKey(line, "codec_name")
    /\ HasKey(line, "tag:title")
    /\ Len(tracks) = 1
    /\ tracks[1].index = 1 /\ tracks[1].kind = "Subtitle"

====
